---- MODULE Spec2Model ----
(***************************************************************************)
(* Model of the image-quality / readability scorer of nextjs-ocr-demo:     *)
(* the blur-detection route (class DocumentBlurDetector and its POST) and  *)
(* the document-readability route (class DocumentReadabilityChecker and    *)
(* its POST), the OCRUploader component that calls the routes, and the     *)
(* POST handler of /api/ocr.                                               *)
(*                                                                         *)
(* Numbers.  JavaScript numbers are modelled as exact rationals            *)
(* [n |-> numerator, d |-> denominator] in lowest terms with d > 0, plus   *)
(* the value NaN (d = 0) that 0/0 produces.  Rounding of IEEE doubles is   *)
(* not modelled.  Math.sqrt is modelled to a fixed precision (see sqrt).   *)
(*                                                                         *)
(* Collaborators.  sharp (decoding, metadata, grayscale pixels) and        *)
(* node-tesseract-ocr (recognised text) are libraries outside the          *)
(* repository: what they return is an input of the model.  A file carries  *)
(* the metadata sharp reports for it and the grayscale pixels sharp hands  *)
(* to the scoring code; the recognised text is drawn when tesseract        *)
(* answers.                                                                *)
(***************************************************************************)
EXTENDS Integers, Sequences, FiniteSets, TLC

VARIABLES
    pc,        \* position of the request handler being served
    path,      \* "blur" (/api/blur-detection) or "read" (/api/document-readability)
    file,      \* formData.get('file'): NoFile or the uploaded image
    scorer,    \* the DocumentBlurDetector / DocumentReadabilityChecker instance
    quality,   \* the pixel statistics computed so far (NoQuality before)
    resp,      \* the NextResponse sent (NoResp while the handler runs)
    cause,     \* the value thrown inside the request (NoCause while none was)
    call,      \* a direct application of one scorer method: [fn, args, out]
    reqs,      \* the scoring requests served concurrently, by request id
    ui,        \* the state of the OCRUploader component and its request in flight
    ocr        \* the POST handler of /api/ocr and the extraction it started

vars == <<pc, path, file, scorer, quality, resp, cause, call, reqs, ui, ocr>>

(***************************************************************************)
(* Bounds of the model.                                                    *)
(***************************************************************************)
MaxSide == 4        \* images are at most MaxSide wide and MaxSide high
MaxPixels == 12     \* and hold at most MaxPixels pixels
MaxWordCount == 12  \* largest wordCount handed to calculateReadabilityScore
MaxPairPixels == 6  \* images of a pair of detectBlur calls hold at most MaxPairPixels pixels

(***************************************************************************)
(* JavaScript numbers as rationals.                                        *)
(***************************************************************************)
Abs(i) == IF i < 0 THEN -i ELSE i

RECURSIVE Gcd(_, _)
Gcd(a, b) == IF b = 0 THEN a ELSE Gcd(b, a % b)

NaN == [n |-> 0, d |-> 0]

IsNaN(x) == x.d = 0

\* the rational a/b in lowest terms; 0/0 is NaN
Q(a, b) ==
    IF b = 0 THEN NaN
    ELSE LET g == Gcd(Abs(a), Abs(b))
             s == IF b < 0 THEN -1 ELSE 1
         IN  [n |-> s * (a \div g), d |-> s * (b \div g)]

Num(i) == [n |-> i, d |-> 1]

Add(x, y) == IF IsNaN(x) \/ IsNaN(y) THEN NaN ELSE Q(x.n * y.d + y.n * x.d, x.d * y.d)
Sub(x, y) == IF IsNaN(x) \/ IsNaN(y) THEN NaN ELSE Q(x.n * y.d - y.n * x.d, x.d * y.d)
Mul(x, y) == IF IsNaN(x) \/ IsNaN(y) THEN NaN ELSE Q(x.n * y.n, x.d * y.d)
\* x / y; the only zero divisor the code can meet is 0/0 (calculateBlurScore)
Div(x, y) == IF IsNaN(x) \/ IsNaN(y) THEN NaN ELSE Q(x.n * y.d, x.d * y.n)

\* comparisons: every comparison with NaN is false
Lt(x, y) == ~IsNaN(x) /\ ~IsNaN(y) /\ x.n * y.d < y.n * x.d
Le(x, y) == ~IsNaN(x) /\ ~IsNaN(y) /\ x.n * y.d <= y.n * x.d
Gt(x, y) == Lt(y, x)
Ge(x, y) == Le(y, x)

\* Math.min / Math.max: NaN if either argument is NaN
MathMin(x, y) == IF IsNaN(x) \/ IsNaN(y) THEN NaN ELSE IF Le(x, y) THEN x ELSE y
MathMax(x, y) == IF IsNaN(x) \/ IsNaN(y) THEN NaN ELSE IF Ge(x, y) THEN x ELSE y

MathAbs(x) == IF IsNaN(x) THEN NaN ELSE [n |-> Abs(x.n), d |-> x.d]

\* Math.pow(x, 2)
Square(x) == Mul(x, x)

\* a value is falsy for || when it is 0 or NaN
Falsy(x) == IsNaN(x) \/ x.n = 0

RECURSIVE ISqrtIn(_, _, _)
ISqrtIn(x, lo, hi) ==
    IF lo >= hi THEN lo
    ELSE LET mid == (lo + hi + 1) \div 2
         IN  IF mid * mid <= x THEN ISqrtIn(x, mid, hi) ELSE ISqrtIn(x, lo, mid - 1)

\* the integer square root, for 0 <= x < 2^30
ISqrt(x) == ISqrtIn(x, 0, 32767)

\* Math.sqrt, to two decimal places (rounded down): exact for 0 and for every
\* square of a multiple of 1/100.  Arguments are variances, at most 127.5^2.
sqrt(x) ==
    IF IsNaN(x) \/ x.n < 0 THEN NaN
    ELSE Q(ISqrt((x.n \div x.d) * 10000 + ((x.n % x.d) * 10000) \div x.d), 100)

(***************************************************************************)
(* Optional fields of an options object: {} when absent, {v} when given.   *)
(***************************************************************************)
Absent == {}
Given(v) == {v}
ValueOf(o) == CHOOSE v \in o : TRUE

\* options.field || dflt, for a numeric field
OrNumber(o, dflt) == IF o = Absent \/ Falsy(ValueOf(o)) THEN dflt ELSE ValueOf(o)
\* options.field || dflt, for an object field (an object is always truthy)
OrObject(o, dflt) == IF o = Absent THEN dflt ELSE ValueOf(o)

(***************************************************************************)
(* Uploaded files.  width and height are what sharp's metadata() reports   *)
(* (0 stands for an undefined dimension), px is the Uint8Array that        *)
(* grayscale().raw().toBuffer() yields, row by row.                        *)
(***************************************************************************)
NoFile == [present |-> FALSE, decodable |-> FALSE, width |-> 0, height |-> 0, px |-> <<>>]

Undecodable == [present |-> TRUE, decodable |-> FALSE, width |-> 0, height |-> 0, px |-> <<>>]

Image(w, h, p) == [present |-> TRUE, decodable |-> TRUE, width |-> w, height |-> h, px |-> p]

\* intensities used for images with two levels, and for images of one level
BinaryLevels == {0, 255}
GrayLevels == {0, 1, 100, 128, 254, 255}

Dimensions == {wh \in (1..MaxSide) \X (1..MaxSide) : wh[1] * wh[2] <= MaxPixels}

Images ==
    UNION {
        {Image(wh[1], wh[2], p) : p \in [1..(wh[1] * wh[2]) -> BinaryLevels]}
        \cup {Image(wh[1], wh[2], [i \in 1..(wh[1] * wh[2]) |-> g]) : g \in GrayLevels}
        : wh \in Dimensions }

Uploads == {NoFile, Undecodable} \cup Images

\* pixels[idx] for a 0-based index
At(pixels, idx) == pixels[idx + 1]

(***************************************************************************)
(* Array.reduce((sum, value) => sum + value, 0) over numbers.              *)
(***************************************************************************)
RECURSIVE SumFrom(_, _, _)
SumFrom(s, i, acc) == IF i > Len(s) THEN acc ELSE SumFrom(s, i + 1, Add(acc, s[i]))

Sum(s) == SumFrom(s, 1, Num(0))

\* the Uint8Array as numbers
Numbers(data) == [i \in 1..Len(data) |-> Num(data[i])]

(***************************************************************************)
(* Error messages are sequences of string pieces, so that a message that   *)
(* wraps another contains it as a suffix.                                  *)
(***************************************************************************)
\* throw new Error(message)
Thrown(message) == [ok |-> FALSE, isError |-> TRUE, message |-> message]
\* a thrown value that is not an Error: the string text (message holds the text)
ThrownString(text) == [ok |-> FALSE, isError |-> FALSE, message |-> text]
Returned(value) == [ok |-> TRUE, value |-> value]

\* error.message as a template literal prints it: a string has no message property
MessageOf(error) == IF error.isError THEN error.message ELSE <<"undefined">>

\* what sharp throws for a buffer it cannot decode
SharpError == <<"Input buffer contains unsupported image format">>
\* what node-tesseract-ocr throws when recognition fails
TesseractError == <<"tesseract: recognition failed">>

\* the values a failing call of sharp / of recognize may throw: an Error, or
\* a value of another kind (the catch blocks test for it)
SharpThrows == {Thrown(SharpError), ThrownString(<<"sharp: out of memory">>)}
TesseractThrows == {Thrown(TesseractError), ThrownString(<<"tesseract: timed out">>)}

(***************************************************************************)
(* class DocumentBlurDetector                                              *)
(***************************************************************************)
Size(w, h) == [width |-> w, height |-> h]

DefaultBlurThreshold == Q(15, 100)

BlurDetectorDefaultSize == Size(800, 500)

\* constructor(options)
DocumentBlurDetector(options) ==
    [ blurThreshold |-> OrNumber(options.blurThreshold, DefaultBlurThreshold),
      minDocumentSize |-> OrObject(options.minDocumentSize, BlurDetectorDefaultSize) ]

\* calculateVariance dividing by length - 1 (the sample variance)
calculateVariance_Sample(data) ==
    LET mean == Div(Sum(Numbers(data)), Num(Len(data)))
        squareDiffs == [i \in 1..Len(data) |-> Square(Sub(Num(data[i]), mean))]
        avgSquareDiff == Div(Sum(squareDiffs), Num(Len(squareDiffs) - 1))
    IN  avgSquareDiff

\* calculateVariance(data)
calculateVariance(data) ==
    LET mean == Div(Sum(Numbers(data)), Num(Len(data)))
        squareDiffs == [i \in 1..Len(data) |-> Square(Sub(Num(data[i]), mean))]
        avgSquareDiff == Div(Sum(squareDiffs), Num(Len(squareDiffs)))
    IN  avgSquareDiff

\* the dimension test of detectBlur
ResolutionTooLow(self, metadata) ==
    \/ metadata.width = 0
    \/ metadata.height = 0
    \/ metadata.width < self.minDocumentSize.width
    \/ metadata.height < self.minDocumentSize.height

ResolutionMessage(self) ==
    << "Image resolution too low. Minimum required: ",
       ToString(self.minDocumentSize.width), "x", ToString(self.minDocumentSize.height) >>

RecommendBlurry == "Image is too blurry, please provide a clearer image"
RecommendAcceptable == "Image quality is acceptable"

\* the pixel statistics of detectBlur with isBlurry = normalizedVariance <= threshold
DetectBlurPixels_AtMost(self, f) ==
    LET pixelArray == f.px
        variance == calculateVariance(pixelArray)
        normalizedVariance == Div(variance, Num(255 * 255))
        brightness == Div(Sum(Numbers(pixelArray)), Num(Len(pixelArray)))
        contrast == sqrt(Div(Sum([i \in 1..Len(pixelArray) |->
                                     Square(Sub(Num(pixelArray[i]), brightness))]),
                             Num(Len(pixelArray))))
        isBlurry == Le(normalizedVariance, self.blurThreshold)
    IN  [ isBlurry |-> isBlurry,
          blurScore |-> normalizedVariance,
          quality |-> [ brightness |-> Div(brightness, Num(255)),
                        contrast |-> Div(contrast, Num(255)),
                        width |-> f.width,
                        height |-> f.height ],
          threshold |-> self.blurThreshold,
          recommendation |-> IF isBlurry THEN RecommendBlurry ELSE RecommendAcceptable ]

\* the part of detectBlur that follows the dimension test
DetectBlurPixels(self, f) ==
    LET pixelArray == f.px
        variance == calculateVariance(pixelArray)
        normalizedVariance == Div(variance, Num(255 * 255))
        brightness == Div(Sum(Numbers(pixelArray)), Num(Len(pixelArray)))
        contrast == sqrt(Div(Sum([i \in 1..Len(pixelArray) |->
                                     Square(Sub(Num(pixelArray[i]), brightness))]),
                             Num(Len(pixelArray))))
        isBlurry == Lt(normalizedVariance, self.blurThreshold)
    IN  [ isBlurry |-> isBlurry,
          blurScore |-> normalizedVariance,
          quality |-> [ brightness |-> Div(brightness, Num(255)),
                        contrast |-> Div(contrast, Num(255)),
                        width |-> f.width,
                        height |-> f.height ],
          threshold |-> self.blurThreshold,
          recommendation |-> IF isBlurry THEN RecommendBlurry ELSE RecommendAcceptable ]

\* what the try block of detectBlur does before it reads pixels: the error it throws, if any
DetectBlurGuard(self, f) ==
    IF ~f.decodable THEN Thrown(SharpError)
    ELSE IF ResolutionTooLow(self, f) THEN Thrown(ResolutionMessage(self))
    ELSE Returned(TRUE)

\* the catch block of detectBlur
DetectBlurCatch(error) ==
    Thrown(<<"Error analyzing image: ">>
           \o (IF error.isError THEN error.message ELSE <<"Unknown error">>))

\* detectBlur(imageBuffer)
detectBlur(self, f) ==
    LET guard == DetectBlurGuard(self, f)
    IN  IF guard.ok THEN Returned(DetectBlurPixels(self, f)) ELSE DetectBlurCatch(guard)

\* the options the POST handler of /api/blur-detection passes
BlurRouteOptions ==
    [blurThreshold |-> Given(DefaultBlurThreshold), minDocumentSize |-> Given(Size(400, 400))]

(***************************************************************************)
(* Recognised text.  A text is a sequence of pieces: words, the label      *)
(* "Confidence:", numerals (\d+ with an optional fraction), a single       *)
(* space, and a line break (whitespace that is not a single space).        *)
(***************************************************************************)
Word == [kind |-> "word", digits |-> <<>>, frac |-> <<>>]
Label == [kind |-> "label", digits |-> <<>>, frac |-> <<>>]
Space == [kind |-> "space", digits |-> <<>>, frac |-> <<>>]
Break == [kind |-> "break", digits |-> <<>>, frac |-> <<>>]
Numeral(ds, fs) == [kind |-> "num", digits |-> ds, frac |-> fs]

IsWhite(piece) == piece.kind \in {"space", "break"}

\* ocrResult.split(/\s+/).filter(word => word.length > 0).length: the number of
\* maximal runs of pieces that are not whitespace
RECURSIVE CountWords(_, _, _)
CountWords(text, i, inWord) ==
    IF i > Len(text) THEN 0
    ELSE IF IsWhite(text[i]) THEN CountWords(text, i + 1, FALSE)
    ELSE (IF inWord THEN 0 ELSE 1) + CountWords(text, i + 1, TRUE)

SplitWords(text) == CountWords(text, 1, FALSE)

RECURSIVE DigitsValue(_, _, _)
DigitsValue(ds, i, acc) == IF i > Len(ds) THEN acc ELSE DigitsValue(ds, i + 1, 10 * acc + ds[i])

RECURSIVE Pow10(_)
Pow10(k) == IF k = 0 THEN 1 ELSE 10 * Pow10(k - 1)

\* parseFloat of a numeral matched by (\d+\.?\d*)
parseFloat(piece) ==
    Add(Num(DigitsValue(piece.digits, 1, 0)),
        Q(DigitsValue(piece.frac, 1, 0), Pow10(Len(piece.frac))))

\* ocrResult.match(/Confidence: (\d+\.?\d*)/): the position of the numeral of the
\* leftmost match, 0 when there is none
RECURSIVE MatchFrom(_, _)
MatchFrom(text, i) ==
    IF i + 2 > Len(text) THEN 0
    ELSE IF text[i].kind = "label" /\ text[i + 1].kind = "space" /\ text[i + 2].kind = "num"
         THEN i + 2
         ELSE MatchFrom(text, i + 1)

\* the tail of calculateOCRConfidence: match ? parseFloat(match[1]) : 0
ParseConfidence(ocrResult) ==
    LET m == MatchFrom(ocrResult, 1)
    IN  IF m # 0 THEN parseFloat(ocrResult[m]) ELSE Num(0)

RECURSIVE Words(_)
Words(k) == IF k = 0 THEN <<>> ELSE IF k = 1 THEN <<Word>> ELSE <<Word, Space>> \o Words(k - 1)

\* the texts tesseract is taken to answer with
Texts ==
    { <<>>,
      <<Word, Space, Word>>,
      <<Break, Word, Break>>,
      <<Label, Space, Numeral(<<8, 5>>, <<>>)>>,
      <<Label, Break, Numeral(<<9, 9>>, <<>>)>>,
      <<Numeral(<<1, 0, 0>>, <<>>), Space, Label>>,
      <<Word, Break, Label, Space, Numeral(<<2, 5, 0>>, <<>>), Space, Word>>,
      <<Label, Space, Numeral(<<7>>, <<5>>), Break, Label, Space, Numeral(<<9, 0>>, <<>>)>>,
      Words(MaxWordCount) \o <<Break, Label, Space, Numeral(<<9, 5>>, <<>>)>> }

(***************************************************************************)
(* class DocumentReadabilityChecker                                        *)
(***************************************************************************)
DefaultMinConfidence == Num(60)
DefaultMinTextLength == Num(10)

\* constructor(options)
DocumentReadabilityChecker(options) ==
    [ blurThreshold |-> OrNumber(options.blurThreshold, DefaultBlurThreshold),
      minConfidence |-> OrNumber(options.minConfidence, DefaultMinConfidence),
      minTextLength |-> OrNumber(options.minTextLength, DefaultMinTextLength) ]

\* the indices of pixels that the loops of calculateBlurScore read
LaplacianReads(width, height) ==
    UNION { LET idx == y * width + x
            IN  {idx, idx - 1, idx + 1, idx - width, idx + width}
            : x \in 1..(width - 2), y \in 1..(height - 2) }

\* the loops of calculateBlurScore summing val, not Math.abs(val)
RECURSIVE LaplacianLoop_Signed(_, _, _, _, _, _, _)
LaplacianLoop_Signed(pixels, width, height, x, y, laplacianSum, count) ==
    IF ~(y < height - 1) THEN <<laplacianSum, count>>
    ELSE IF ~(x < width - 1)
         THEN LaplacianLoop_Signed(pixels, width, height, 1, y + 1, laplacianSum, count)
    ELSE LET idx == y * width + x
             val == At(pixels, idx) * 4
                    - At(pixels, idx - 1)
                    - At(pixels, idx + 1)
                    - At(pixels, idx - width)
                    - At(pixels, idx + width)
         IN  LaplacianLoop_Signed(pixels, width, height, x + 1, y,
                                  laplacianSum + val, count + 1)

\* the loops of calculateBlurScore: <<laplacianSum, count>> after visiting the
\* pixels (x, y) onwards of the rows 1 .. height-2 and columns 1 .. width-2
RECURSIVE LaplacianLoop(_, _, _, _, _, _, _)
LaplacianLoop(pixels, width, height, x, y, laplacianSum, count) ==
    IF ~(y < height - 1) THEN <<laplacianSum, count>>
    ELSE IF ~(x < width - 1)
         THEN LaplacianLoop(pixels, width, height, 1, y + 1, laplacianSum, count)
    ELSE LET idx == y * width + x
             val == At(pixels, idx) * 4
                    - At(pixels, idx - 1)
                    - At(pixels, idx + 1)
                    - At(pixels, idx - width)
                    - At(pixels, idx + width)
         IN  LaplacianLoop(pixels, width, height, x + 1, y,
                           laplacianSum + Abs(val), count + 1)

\* calculateBlurScore without the clamp to [0, 1]
calculateBlurScore_Unclamped(pixels, width, height) ==
    LET loop == LaplacianLoop(pixels, width, height, 1, 1, 0, 0)
        laplacianVariance == Div(Num(loop[1]), Num(loop[2]))
    IN  Sub(Num(1), Div(laplacianVariance, Num(255)))

\* calculateBlurScore(pixels, width, height)
calculateBlurScore(pixels, width, height) ==
    LET loop == LaplacianLoop(pixels, width, height, 1, 1, 0, 0)
        laplacianVariance == Div(Num(loop[1]), Num(loop[2]))
    IN  MathMax(Num(0), MathMin(Num(1), Sub(Num(1), Div(laplacianVariance, Num(255)))))

\* analyzeImageQuality with the squared differences taken from 0, not from the mean,
\* and the blur score not subtracted from 1
analyzeImageQuality_Raw(f) ==
    LET pixels == f.px
        mean == Div(Sum(Numbers(pixels)), Num(Len(pixels)))
        variance == Div(Sum([i \in 1..Len(pixels) |-> Square(Num(pixels[i]))]),
                        Num(Len(pixels)))
        contrast == Div(sqrt(variance), Num(255))
        blurScore == Sub(Num(1), calculateBlurScore(pixels, f.width, f.height))
    IN  [ contrast |-> contrast,
          blurScore |-> blurScore,
          brightness |-> Div(mean, Num(255)),
          resolution |-> f.width * f.height ]

\* analyzeImageQuality(imageBuffer), for a buffer sharp decodes
analyzeImageQuality(f) ==
    LET pixels == f.px
        mean == Div(Sum(Numbers(pixels)), Num(Len(pixels)))
        variance == Div(Sum([i \in 1..Len(pixels) |-> Square(Sub(Num(pixels[i]), mean))]),
                        Num(Len(pixels)))
        contrast == Div(sqrt(variance), Num(255))
        blurScore == calculateBlurScore(pixels, f.width, f.height)
    IN  [ contrast |-> contrast,
          blurScore |-> blurScore,
          brightness |-> Div(mean, Num(255)),
          resolution |-> f.width * f.height ]

\* the factors of calculateReadabilityScore, in the key order of `weights`
Factors == <<"confidence", "blur", "contrast", "wordCount">>

\* the weights with those of confidence and blur exchanged
Weights_Exchanged ==
    [ confidence |-> Q(3, 10), blur |-> Q(4, 10), contrast |-> Q(2, 10), wordCount |-> Q(1, 10) ]

Weights ==
    [ confidence |-> Q(4, 10), blur |-> Q(3, 10), contrast |-> Q(2, 10), wordCount |-> Q(1, 10) ]

\* the sub-scores with the blur score taken as it is, not subtracted from 1
Scores_BlurNotInverted(a) ==
    [ confidence |-> a.confidenceScore,
      blur |-> Mul(a.blurScore, Num(100)),
      contrast |-> Mul(a.contrast, Num(100)),
      wordCount |-> MathMin(Mul(Div(Num(a.wordCount), Num(10)), Num(100)), Num(100)) ]

Scores(a) ==
    [ confidence |-> a.confidenceScore,
      blur |-> Mul(Sub(Num(1), a.blurScore), Num(100)),
      contrast |-> Mul(a.contrast, Num(100)),
      wordCount |-> MathMin(Mul(Div(Num(a.wordCount), Num(10)), Num(100)), Num(100)) ]

RECURSIVE ReduceFactors(_, _, _)
ReduceFactors(scores, i, score) ==
    IF i > Len(Factors) THEN score
    ELSE ReduceFactors(scores, i + 1, Add(score, Mul(scores[Factors[i]], Weights[Factors[i]])))

\* calculateReadabilityScore({confidenceScore, blurScore, contrast, wordCount})
calculateReadabilityScore(a) == ReduceFactors(Scores(a), 1, Num(0))

MsgPoor == "Overall document quality is poor. Consider recapturing with better lighting and focus."
MsgImprove == "Document quality could be improved for better text recognition."
MsgBlur == "Document appears blurry. Try capturing a clearer image."
MsgContrast == "Low contrast detected. Ensure good lighting and clear background."
MsgBrightness == "Suboptimal brightness. Adjust lighting conditions."
MsgConfidence == "Text recognition confidence is low. Ensure text is clear and well-aligned."

\* suggestions.push(msg) when cond
PushIf(suggestions, cond, msg) == IF cond THEN Append(suggestions, msg) ELSE suggestions

\* generateSuggestions with the blur test >= and the contrast message pushed first
generateSuggestions_Reordered(self, a) ==
    LET s0 == <<>>
        s1 == PushIf(s0, Lt(a.qualityMetrics.contrast, Q(4, 10)), MsgContrast)
        s2 == IF Lt(a.readabilityScore, Num(50)) THEN Append(s1, MsgPoor)
              ELSE IF Lt(a.readabilityScore, Num(70)) THEN Append(s1, MsgImprove)
              ELSE s1
        s3 == PushIf(s2, Ge(a.qualityMetrics.blurScore, self.blurThreshold), MsgBlur)
        s4 == PushIf(s3, \/ Lt(a.qualityMetrics.brightness, Q(3, 10))
                         \/ Gt(a.qualityMetrics.brightness, Q(8, 10)), MsgBrightness)
        s5 == PushIf(s4, Lt(a.confidenceScore, self.minConfidence), MsgConfidence)
    IN  s5

\* generateSuggestions({readabilityScore, qualityMetrics, confidenceScore})
generateSuggestions(self, a) ==
    LET s0 == <<>>
        s1 == IF Lt(a.readabilityScore, Num(50)) THEN Append(s0, MsgPoor)
              ELSE IF Lt(a.readabilityScore, Num(70)) THEN Append(s0, MsgImprove)
              ELSE s0
        s2 == PushIf(s1, Gt(a.qualityMetrics.blurScore, self.blurThreshold), MsgBlur)
        s3 == PushIf(s2, Lt(a.qualityMetrics.contrast, Q(4, 10)), MsgContrast)
        s4 == PushIf(s3, \/ Lt(a.qualityMetrics.brightness, Q(3, 10))
                         \/ Gt(a.qualityMetrics.brightness, Q(8, 10)), MsgBrightness)
        s5 == PushIf(s4, Lt(a.confidenceScore, self.minConfidence), MsgConfidence)
    IN  s5

\* the part of checkReadability that follows the two answers of tesseract:
\* ocrResult is the answer to recognize(processedImage, tesseractConfig),
\* confText the answer to the recognize call of calculateOCRConfidence
ReadabilityResult(self, metadata, qualityMetrics, ocrResult, confText) ==
    LET wordCount == SplitWords(ocrResult)
        confidenceScore == ParseConfidence(confText)
        readabilityScore ==
            calculateReadabilityScore([ confidenceScore |-> confidenceScore,
                                        blurScore |-> qualityMetrics.blurScore,
                                        contrast |-> qualityMetrics.contrast,
                                        wordCount |-> wordCount ])
    IN  [ isReadable |-> Ge(readabilityScore, Num(70)),
          readabilityScore |-> readabilityScore,
          details |-> [ wordCount |-> wordCount,
                        confidenceScore |-> confidenceScore,
                        imageQuality |-> qualityMetrics,
                        metadata |-> [width |-> metadata.width, height |-> metadata.height] ],
          text |-> ocrResult,
          suggestions |-> generateSuggestions(self,
                              [ readabilityScore |-> readabilityScore,
                                qualityMetrics |-> qualityMetrics,
                                confidenceScore |-> confidenceScore ]) ]

\* the catch block of checkReadability
CheckReadabilityCatch(error) ==
    Thrown(<<"Failed to analyze document readability: ">> \o MessageOf(error))

\* the options the POST handler of /api/document-readability passes
ReadRouteOptions ==
    [ blurThreshold |-> Given(DefaultBlurThreshold),
      minConfidence |-> Given(DefaultMinConfidence),
      minTextLength |-> Given(DefaultMinTextLength) ]

(***************************************************************************)
(* The two scoring routes.  A scorer is built from an options object; the  *)
(* handlers pass BlurRouteOptions / ReadRouteOptions.  Both classes accept *)
(* any options object, and the model also builds scorers from the other    *)
(* option sets below: with the routes' 400x400 minimum no image of the     *)
(* size the model can enumerate gets past the dimension test.              *)
(***************************************************************************)
BlurOptionSets ==
    { BlurRouteOptions,
      [blurThreshold |-> Absent, minDocumentSize |-> Absent],
      [blurThreshold |-> Given(DefaultBlurThreshold), minDocumentSize |-> Given(Size(2, 2))],
      [blurThreshold |-> Given(Q(2, 10)), minDocumentSize |-> Given(Size(3, 3))] }

ReadOptionSets ==
    { ReadRouteOptions,
      [blurThreshold |-> Absent, minConfidence |-> Absent, minTextLength |-> Absent],
      [blurThreshold |-> Given(Q(1, 2)), minConfidence |-> Given(Num(80)),
       minTextLength |-> Given(Num(1))] }

NoScorer == [blurThreshold |-> NaN]
NoQuality == [computed |-> FALSE]
NoResp == [status |-> 0, error |-> <<>>]
NoCause == [ok |-> TRUE]
NoCall == [fn |-> "none"]

\* NextResponse.json(body) and NextResponse.json({error}, {status})
Json(body) == [status |-> 200, error |-> <<>>, body |-> body]
JsonError(status, message) == [status |-> status, error |-> message]

\* the catch block of a POST handler: err.message || fallback
PostCatch(err, fallback) ==
    JsonError(500, IF err.message = <<>> THEN <<fallback>> ELSE err.message)

\* no request is being served by the two scoring routes
RouteIdle ==
    /\ pc = "idle"
    /\ path = "none"
    /\ file = NoFile
    /\ scorer = NoScorer
    /\ quality = NoQuality
    /\ resp = NoResp
    /\ cause = NoCause

NoReqs == <<>>
NoUi == [mounted |-> FALSE]
NoOcr == [pc |-> "none"]

Idle ==
    /\ RouteIdle
    /\ reqs = NoReqs
    /\ ui = NoUi
    /\ ocr = NoOcr

Init == Idle /\ call = NoCall

\* the handler returns the response r; the pixel buffer is dropped with the call
Respond(r) ==
    /\ resp' = r
    /\ pc' = "done"
    /\ file' = [file EXCEPT !.px = <<>>]
    /\ scorer' = scorer

\* POST of /api/blur-detection, up to the call of detectBlur
BlurPost_Receive ==
    /\ pc = "idle"
    /\ \E f \in Uploads, options \in BlurOptionSets :
          /\ path' = "blur"
          /\ IF ~f.present
             THEN Respond(JsonError(400, <<"No file provided">>))
             ELSE /\ file' = f
                  /\ scorer' = DocumentBlurDetector(options)
                  /\ pc' = "detectBlur_metadata"
                  /\ resp' = resp
    /\ UNCHANGED <<quality, cause, call, reqs, ui, ocr>>

\* detectBlur: metadata() and the dimension test
DetectBlur_Metadata ==
    /\ pc = "detectBlur_metadata"
    /\ \E thrown \in SharpThrows :
          LET guard == IF file.decodable THEN DetectBlurGuard(scorer, file) ELSE thrown
          IN  IF guard.ok
              THEN /\ pc' = "detectBlur_pixels"
                   /\ UNCHANGED <<file, scorer, resp, cause>>
              ELSE /\ cause' = guard
                   /\ Respond(PostCatch(DetectBlurCatch(guard), "Failed to analyze image"))
    /\ UNCHANGED <<path, quality, call, reqs, ui, ocr>>

\* detectBlur: the pixel statistics, and the response of the handler
DetectBlur_Pixels ==
    /\ pc = "detectBlur_pixels"
    /\ LET results == DetectBlurPixels(scorer, file)
       IN  /\ quality' = [computed |-> TRUE, blurScore |-> results.blurScore,
                          brightness |-> results.quality.brightness,
                          contrast |-> results.quality.contrast]
           /\ Respond(Json(results))
    /\ UNCHANGED <<path, cause, call, reqs, ui, ocr>>

\* POST of /api/document-readability, up to the call of checkReadability
ReadPost_Receive ==
    /\ pc = "idle"
    /\ \E f \in Uploads, options \in ReadOptionSets :
          /\ path' = "read"
          /\ IF ~f.present
             THEN Respond(JsonError(400, <<"No file provided">>))
             ELSE /\ file' = f
                  /\ scorer' = DocumentReadabilityChecker(options)
                  /\ pc' = "checkReadability_quality"
                  /\ resp' = resp
    /\ UNCHANGED <<quality, cause, call, reqs, ui, ocr>>

\* checkReadability: preprocessImage, metadata() and analyzeImageQuality.  The
\* pixel array is local to analyzeImageQuality; nothing reads it afterwards.
CheckReadability_Quality ==
    /\ pc = "checkReadability_quality"
    /\ IF ~file.decodable
       THEN \E thrown \in SharpThrows :
               /\ cause' = thrown
               /\ Respond(PostCatch(CheckReadabilityCatch(thrown),
                                    "Failed to analyze document readability"))
               /\ quality' = quality
       ELSE LET qualityMetrics == analyzeImageQuality(file)
            IN  /\ quality' = [computed |-> TRUE, blurScore |-> qualityMetrics.blurScore,
                               brightness |-> qualityMetrics.brightness,
                               contrast |-> qualityMetrics.contrast,
                               resolution |-> qualityMetrics.resolution]
                /\ file' = [file EXCEPT !.px = <<>>]
                /\ pc' = "checkReadability_ocr"
                /\ UNCHANGED <<scorer, resp, cause>>
    /\ UNCHANGED <<path, call, reqs, ui, ocr>>

\* checkReadability: tesseract answers both recognize calls; score, suggestions
\* and the response of the handler
CheckReadability_OCR ==
    /\ pc = "checkReadability_ocr"
    /\ \E ocrResult \in Texts, confText \in Texts :
          Respond(Json(ReadabilityResult(scorer, file,
                                         [ contrast |-> quality.contrast,
                                           blurScore |-> quality.blurScore,
                                           brightness |-> quality.brightness,
                                           resolution |-> quality.resolution ],
                                         ocrResult, confText)))
    /\ UNCHANGED <<path, quality, cause, call, reqs, ui, ocr>>

\* checkReadability: a recognize call throws
CheckReadability_OCRFails ==
    /\ pc = "checkReadability_ocr"
    /\ \E thrown \in TesseractThrows :
          /\ cause' = thrown
          /\ Respond(PostCatch(CheckReadabilityCatch(thrown),
                               "Failed to analyze document readability"))
    /\ UNCHANGED <<path, quality, call, reqs, ui, ocr>>

\* the next request is served
NextRequest ==
    /\ pc = "done"
    /\ pc' = "idle"
    /\ path' = "none"
    /\ file' = NoFile
    /\ scorer' = NoScorer
    /\ quality' = NoQuality
    /\ resp' = NoResp
    /\ cause' = NoCause
    /\ UNCHANGED <<call, reqs, ui, ocr>>

Next ==
    \/ BlurPost_Receive
    \/ DetectBlur_Metadata
    \/ DetectBlur_Pixels
    \/ ReadPost_Receive
    \/ CheckReadability_Quality
    \/ CheckReadability_OCR
    \/ CheckReadability_OCRFails
    \/ NextRequest

Spec == Init /\ [][Next]_vars

(***************************************************************************)
(* Properties of the responses (specification Spec).                       *)
(***************************************************************************)
InUnit(x) == Le(Num(0), x) /\ Le(x, Num(1))
InPercent(x) == Le(Num(0), x) /\ Le(x, Num(100))

\* message contains the pieces of part, in order and adjacent
Contains(message, part) ==
    \E i \in 0..(Len(message) - Len(part)) :
        \A j \in 1..Len(part) : message[i + j] = part[j]

\* the metrics a success response reports
ReportedBrightness ==
    IF path = "blur" THEN resp.body.quality.brightness
    ELSE resp.body.details.imageQuality.brightness
ReportedContrast ==
    IF path = "blur" THEN resp.body.quality.contrast
    ELSE resp.body.details.imageQuality.contrast
ReportedBlurScore ==
    IF path = "blur" THEN resp.body.blurScore
    ELSE resp.body.details.imageQuality.blurScore

\* C1: in both paths, for every decodable image of any width and height, the
\* brightness, contrast and blurScore of the result are numbers inside [0,1].
C1_MetricsInUnitInterval ==
    resp.status = 200 =>
        /\ InUnit(ReportedBrightness)
        /\ InUnit(ReportedContrast)
        /\ InUnit(ReportedBlurScore)

\* the minimum the specification gives for the readability call site, whose
\* scorer has no minDocumentSize of its own
ReadabilityMinimumSize == Size(400, 400)

ConfiguredMinimum ==
    IF path = "blur" THEN scorer.minDocumentSize ELSE ReadabilityMinimumSize

BelowMinimum(f, min) == f.width < min.width \/ f.height < min.height

ResolutionRejected ==
    /\ resp.status = 500
    /\ Contains(resp.error, << "Image resolution too low. Minimum required: ",
                                ToString(ConfiguredMinimum.width), "x",
                                ToString(ConfiguredMinimum.height) >>)
    /\ ~quality.computed

\* C2: in every scoring path a decodable image below the configured minimum is
\* answered with the resolution-too-low error that states the minimum, before any
\* pixel statistic is computed; an image at the minimum is not rejected for its size.
C2_BelowMinimumRejected ==
    (pc = "done" /\ file.decodable) =>
        IF BelowMinimum(file, ConfiguredMinimum)
        THEN ResolutionRejected
        ELSE ~Contains(resp.error, <<"Image resolution too low. Minimum required: ">>)

\* C5: every result of checkReadability has readabilityScore and confidenceScore
\* in [0,100], whatever text tesseract returns and whatever the image dimensions.
C5_ReadabilityScoresInRange ==
    (path = "read" /\ resp.status = 200) =>
        /\ InPercent(resp.body.readabilityScore)
        /\ InPercent(resp.body.details.confidenceScore)

\* the response is a failure response: an error field and no result field
FailureResponse(r) == r.error # <<>> /\ "body" \notin DOMAIN r

\* C11: a request in which a value was thrown (whatever its kind) ends with HTTP
\* 500 and an error message that contains the text of the thrown value, with no
\* result field; a request without a file ends with HTTP 400 'No file provided'.
C11_FailuresKeepTheCause ==
    pc = "done" =>
        /\ ~cause.ok => /\ resp.status = 500
                        /\ FailureResponse(resp)
                        /\ Contains(resp.error, cause.message)
        /\ ~file.present => resp = JsonError(400, <<"No file provided">>)

\* the part of C11 that holds: a thrown Error keeps its message, and a request
\* without a file is answered 400
C11_ErrorsKeepTheCause ==
    pc = "done" =>
        /\ (~cause.ok /\ cause.isError) => /\ resp.status = 500
                                           /\ FailureResponse(resp)
                                           /\ Contains(resp.error, cause.message)
        /\ ~file.present => resp = JsonError(400, <<"No file provided">>)

(***************************************************************************)
(* Direct applications of calculateReadabilityScore (specification         *)
(* SpecScore): the inputs are drawn from bounded sets, ScoreApply applies  *)
(* the method, and the Raise actions apply it again with one input raised. *)
(***************************************************************************)
ConfidenceValues == {Num(0), Num(30), Q(151, 2), Num(100), Num(250)}
BlurValues == {Num(0), Q(15, 100), Q(1, 2), Num(1)}
ContrastValues == {Num(0), Q(1, 4), Q(2, 5), Q(1, 2), Num(1)}
WordCounts == 0..MaxWordCount

ScoreInputs ==
    [ confidenceScore : ConfidenceValues, blurScore : BlurValues,
      contrast : ContrastValues, wordCount : WordCounts ]

\* raised names the input the last step raised ("none" for a first application)
\* and before is the score returned before that input was raised
ScoreCall(a, done, raised, before) ==
    [ fn |-> "calculateReadabilityScore", args |-> a, done |-> done,
      out |-> IF done THEN calculateReadabilityScore(a) ELSE Num(0),
      raised |-> raised, before |-> before ]

ScoreInit == Idle /\ \E a \in ScoreInputs : call = ScoreCall(a, FALSE, "none", Num(0))

ScoreApply ==
    /\ call.fn = "calculateReadabilityScore" /\ ~call.done
    /\ call' = ScoreCall(call.args, TRUE, "none", Num(0))
    /\ UNCHANGED <<pc, path, file, scorer, quality, resp, cause, reqs, ui, ocr>>

RaiseConfidence ==
    /\ call.fn = "calculateReadabilityScore" /\ call.done
    /\ \E v \in ConfidenceValues :
          /\ Gt(v, call.args.confidenceScore)
          /\ call' = ScoreCall([call.args EXCEPT !.confidenceScore = v], TRUE,
                               "confidenceScore", call.out)
    /\ UNCHANGED <<pc, path, file, scorer, quality, resp, cause, reqs, ui, ocr>>

RaiseBlur ==
    /\ call.fn = "calculateReadabilityScore" /\ call.done
    /\ \E v \in BlurValues :
          /\ Gt(v, call.args.blurScore)
          /\ call' = ScoreCall([call.args EXCEPT !.blurScore = v], TRUE,
                               "blurScore", call.out)
    /\ UNCHANGED <<pc, path, file, scorer, quality, resp, cause, reqs, ui, ocr>>

RaiseContrast ==
    /\ call.fn = "calculateReadabilityScore" /\ call.done
    /\ \E v \in ContrastValues :
          /\ Gt(v, call.args.contrast)
          /\ call' = ScoreCall([call.args EXCEPT !.contrast = v], TRUE,
                               "contrast", call.out)
    /\ UNCHANGED <<pc, path, file, scorer, quality, resp, cause, reqs, ui, ocr>>

RaiseWordCount ==
    /\ call.fn = "calculateReadabilityScore" /\ call.done
    /\ \E v \in WordCounts :
          /\ v > call.args.wordCount
          /\ call' = ScoreCall([call.args EXCEPT !.wordCount = v], TRUE,
                               "wordCount", call.out)
    /\ UNCHANGED <<pc, path, file, scorer, quality, resp, cause, reqs, ui, ocr>>

ScoreNext ==
    \/ ScoreApply
    \/ RaiseConfidence
    \/ RaiseBlur
    \/ RaiseContrast
    \/ RaiseWordCount

SpecScore == ScoreInit /\ [][ScoreNext]_vars

\* the state holds the score returned after one input alone was raised
ScoredAfterRaise ==
    call.fn = "calculateReadabilityScore" /\ call.done /\ call.raised # "none"

\* C3 as claimed: raising any single input of calculateReadabilityScore, the other
\* three held fixed, never lowers the returned score.
C3_NonDecreasingInEveryInput ==
    ScoredAfterRaise => Ge(call.out, call.before)

\* C3 as amended: the score never falls when confidenceScore, contrast or wordCount
\* alone is raised, and never rises when blurScore alone is raised.
C3_MonotoneInEachInput ==
    ScoredAfterRaise =>
        IF call.raised = "blurScore"
        THEN Le(call.out, call.before)
        ELSE Ge(call.out, call.before)

\* raising blurScore alone has lowered the score
C3_Witness ==
    /\ ScoredAfterRaise
    /\ call.raised = "blurScore"
    /\ Lt(call.out, call.before)

\* C4: calculateReadabilityScore returns 0.4*confidenceScore + 0.3*(1-blurScore)*100
\* + 0.2*contrast*100 + 0.1*min(wordCount*10, 100), so the word-count term is full
\* at 10 words and does not grow beyond.
C4_WeightedSum ==
    (call.fn = "calculateReadabilityScore" /\ call.done) =>
        LET a == call.args
            capped == IF a.wordCount * 10 < 100 THEN a.wordCount * 10 ELSE 100
        IN  /\ call.out.d # 0
            /\ 1000 * call.out.n * a.confidenceScore.d * a.blurScore.d * a.contrast.d
                 = call.out.d *
                     ( 400 * a.confidenceScore.n * a.blurScore.d * a.contrast.d
                       + 30000 * (a.blurScore.d - a.blurScore.n) * a.confidenceScore.d * a.contrast.d
                       + 20000 * a.contrast.n * a.confidenceScore.d * a.blurScore.d
                       + 100 * capped * a.confidenceScore.d * a.blurScore.d * a.contrast.d )

\* a score computed for more than ten words
C4_Witness ==
    /\ call.fn = "calculateReadabilityScore" /\ call.done
    /\ call.args.wordCount > 10
    /\ Gt(call.args.confidenceScore, Num(0))
    /\ Gt(call.args.contrast, Num(0))

(***************************************************************************)
(* Direct applications of generateSuggestions (specification SpecSuggest). *)
(***************************************************************************)
SuggestScores == {NaN, Num(0), Q(4999, 100), Num(50), Q(6999, 100), Num(70), Num(100)}
SuggestBlurs == {NaN, Num(0), Q(15, 100), Q(16, 100), Q(1, 2), Num(1)}
SuggestContrasts == {Num(0), Q(39, 100), Q(4, 10), Q(1, 2)}
SuggestBrightnesses == {Num(0), Q(29, 100), Q(3, 10), Q(8, 10), Q(81, 100), Num(1)}
SuggestConfidences == {Num(0), Q(599, 10), Num(60), Num(80), Num(100)}

SuggestInputs ==
    [ readabilityScore : SuggestScores,
      qualityMetrics : [ blurScore : SuggestBlurs, contrast : SuggestContrasts,
                         brightness : SuggestBrightnesses ],
      confidenceScore : SuggestConfidences ]

Checkers == {DocumentReadabilityChecker(options) : options \in ReadOptionSets}

SuggestInit ==
    /\ Idle
    /\ \E self \in Checkers, a \in SuggestInputs :
          call = [fn |-> "generateSuggestions", self |-> self, args |-> a,
                  done |-> FALSE, out |-> <<>>]

SuggestApply ==
    /\ call.fn = "generateSuggestions" /\ ~call.done
    /\ call' = [call EXCEPT !.done = TRUE, !.out = generateSuggestions(call.self, call.args)]
    /\ UNCHANGED <<pc, path, file, scorer, quality, resp, cause, reqs, ui, ocr>>

SuggestNext == SuggestApply

SpecSuggest == SuggestInit /\ [][SuggestNext]_vars

\* the place of a message in the fixed sequence [generic, blur, contrast, brightness, confidence]
Rank(msg) ==
    CASE msg = MsgPoor -> 1
      [] msg = MsgImprove -> 1
      [] msg = MsgBlur -> 2
      [] msg = MsgContrast -> 3
      [] msg = MsgBrightness -> 4
      [] msg = MsgConfidence -> 5
      [] OTHER -> 0

Has(list, msg) == \E i \in 1..Len(list) : list[i] = msg

\* C9: generateSuggestions returns an order-preserving selection from [generic, blur,
\* contrast, brightness, confidence]; the generic message is the 'poor' one iff
\* score < 50 and the 'could be improved' one iff 50 <= score < 70; blur iff
\* blurScore > blurThreshold; contrast iff contrast < 0.4; brightness iff brightness
\* < 0.3 or > 0.8; confidence iff confidenceScore < minConfidence; the list is empty
\* exactly when none of these holds.
C9_SuggestionsSelectInOrder ==
    (call.fn = "generateSuggestions" /\ call.done) =>
        LET list == call.out
            a == call.args
            poor == Lt(a.readabilityScore, Num(50))
            improve == Ge(a.readabilityScore, Num(50)) /\ Lt(a.readabilityScore, Num(70))
            blurry == Gt(a.qualityMetrics.blurScore, call.self.blurThreshold)
            flat == Lt(a.qualityMetrics.contrast, Q(2, 5))
            badLight == \/ Lt(a.qualityMetrics.brightness, Q(3, 10))
                        \/ Gt(a.qualityMetrics.brightness, Q(4, 5))
            unsure == Lt(a.confidenceScore, call.self.minConfidence)
        IN  /\ \A i \in 1..Len(list) : Rank(list[i]) # 0
            /\ \A i, j \in 1..Len(list) : i < j => Rank(list[i]) < Rank(list[j])
            /\ Has(list, MsgPoor) <=> poor
            /\ Has(list, MsgImprove) <=> improve
            /\ Has(list, MsgBlur) <=> blurry
            /\ Has(list, MsgContrast) <=> flat
            /\ Has(list, MsgBrightness) <=> badLight
            /\ Has(list, MsgConfidence) <=> unsure
            /\ (list = <<>>) <=> ~(poor \/ improve \/ blurry \/ flat \/ badLight \/ unsure)

\* all five kinds of message were selected at once
C9_Witness ==
    /\ call.fn = "generateSuggestions" /\ call.done
    /\ call.out = <<MsgImprove, MsgBlur, MsgContrast, MsgBrightness, MsgConfidence>>

(***************************************************************************)
(* Direct applications of analyzeImageQuality (specification SpecQuality). *)
(***************************************************************************)
QualityInit ==
    /\ Idle
    /\ \E f \in Images :
          call = [fn |-> "analyzeImageQuality", args |-> f, done |-> FALSE,
                  out |-> [contrast |-> Num(0), blurScore |-> Num(0),
                           brightness |-> Num(0), resolution |-> 0]]

QualityApply ==
    /\ call.fn = "analyzeImageQuality" /\ ~call.done
    /\ call' = [call EXCEPT !.done = TRUE, !.out = analyzeImageQuality(call.args)]
    /\ UNCHANGED <<pc, path, file, scorer, quality, resp, cause, reqs, ui, ocr>>

QualityNext == QualityApply

SpecQuality == QualityInit /\ [][QualityNext]_vars

\* every pixel of the image has the same intensity
Constant(f) == \A i \in 1..Len(f.px) : f.px[i] = f.px[1]

\* the image has a pixel that is not on its border
HasInterior(f) == f.width >= 3 /\ f.height >= 3

\* neighbouring pixels alternate between 0 and 255
Checkerboard(f) ==
    /\ f.decodable
    /\ f.px[1] \in {0, 255}
    /\ \A y \in 0..(f.height - 1), x \in 0..(f.width - 1) :
          At(f.px, y * f.width + x) = IF (x + y) % 2 = 0 THEN f.px[1] ELSE 255 - f.px[1]

\* the pixels of f that are not on its 1-pixel border, as <<x, y>>
Interior(f) == (1..(f.width - 2)) \X (1..(f.height - 2))

\* the intensity of the pixel in column x and row y
PixelAt(f, x, y) == f.px[y * f.width + x + 1]

\* |4*center - left - right - top - bottom| at the pixel xy
AbsLaplacian(f, xy) ==
    LET x == xy[1]
        y == xy[2]
        v == 4 * PixelAt(f, x, y) - PixelAt(f, x - 1, y) - PixelAt(f, x + 1, y)
             - PixelAt(f, x, y - 1) - PixelAt(f, x, y + 1)
    IN  IF v < 0 THEN 0 - v ELSE v

\* the sum of AbsLaplacian over the set of pixels S
RECURSIVE SumAbsLaplacian(_, _)
SumAbsLaplacian(f, S) ==
    IF S = {} THEN 0
    ELSE LET xy == CHOOSE p \in S : TRUE
         IN  AbsLaplacian(f, xy) + SumAbsLaplacian(f, S \ {xy})

Clamp01(v) == IF Lt(v, Num(0)) THEN Num(0) ELSE IF Gt(v, Num(1)) THEN Num(1) ELSE v

\* C15: for every image with at least one interior pixel, calculateBlurScore is
\* clamp(1 - M/255, 0, 1) with M the mean of |4*center - left - right - top - bottom|
\* over exactly the (width-2)*(height-2) interior pixels; every index read lies
\* inside the pixel array.
C15_BlurScoreIsClampedMeanLaplacian ==
    (call.fn = "analyzeImageQuality" /\ call.done /\ HasInterior(call.args)) =>
        LET f == call.args
            n == (f.width - 2) * (f.height - 2)
            M == Div(Num(SumAbsLaplacian(f, Interior(f))), Num(n))
            loop == LaplacianLoop(f.px, f.width, f.height, 1, 1, 0, 0)
        IN  /\ call.out.blurScore = Clamp01(Sub(Num(1), Div(M, Num(255))))
            /\ Cardinality(Interior(f)) = n
            /\ loop[2] = n
            /\ \A idx \in LaplacianReads(f.width, f.height) : 0 <= idx /\ idx < Len(f.px)

\* an image with two interior pixels whose score lies strictly between 0 and 1
C15_Witness ==
    /\ call.fn = "analyzeImageQuality" /\ call.done
    /\ Cardinality(Interior(call.args)) >= 2
    /\ Lt(Num(0), call.out.blurScore)
    /\ Lt(call.out.blurScore, Num(1))

\* C6: for every image of constant intensity with at least one interior pixel,
\* analyzeImageQuality yields contrast = 0 and a Laplacian blurScore = 1.
C6_ConstantImageIsFlatAndBlurred ==
    (call.fn = "analyzeImageQuality" /\ call.done
        /\ Constant(call.args) /\ HasInterior(call.args)) =>
        /\ call.out.contrast = Num(0)
        /\ call.out.blurScore = Num(1)

\* a mid-gray image with interior pixels was analysed
C6_Witness ==
    /\ call.fn = "analyzeImageQuality" /\ call.done
    /\ Constant(call.args) /\ HasInterior(call.args)
    /\ call.args.px[1] = 100
    /\ call.out.blurScore = Num(1)

Detectors ==
    { DocumentBlurDetector(options) :
        options \in BlurOptionSets
                    \cup {[ blurThreshold |-> Given(Q(1, 4)),
                            minDocumentSize |-> Given(Size(2, 2)) ]} }

DetectInit ==
    /\ Idle
    /\ \E self \in Detectors, f \in Images \cup {Undecodable} :
          call = [fn |-> "detectBlur", self |-> self, args |-> f, done |-> FALSE,
                  out |-> Thrown(<<>>)]

DetectApply ==
    /\ call.fn = "detectBlur" /\ ~call.done
    /\ call' = [call EXCEPT !.done = TRUE, !.out = detectBlur(call.self, call.args)]
    /\ UNCHANGED <<pc, path, file, scorer, quality, resp, cause, reqs, ui, ocr>>

DetectNext == DetectApply

SpecDetect == DetectInit /\ [][DetectNext]_vars

\* detectBlur returned a result for a checkerboard
DetectedCheckerboard ==
    /\ call.fn = "detectBlur" /\ call.done
    /\ Checkerboard(call.args)
    /\ call.out.ok

\* C8 as claimed: for a checkerboard of 0 and 255 the global-variance estimator of
\* detectBlur yields a blurScore near 1 (here: at least 0.9).
C8_CheckerboardScoresNearOne ==
    DetectedCheckerboard => Ge(call.out.value.blurScore, Q(9, 10))

\* C8 as amended: for a checkerboard of 0 and 255 with n pixels the global-variance
\* estimator yields the largest blurScore it can give for n pixels, which is near
\* 0.25: exactly 1/4 when n is even and (n*n - 1) / (4*n*n) when n is odd.
C8_CheckerboardScoresQuarter ==
    DetectedCheckerboard =>
        LET n == Len(call.args.px)
        IN  call.out.value.blurScore = Q(n * n - (n % 2), 4 * n * n)

\* a checkerboard with an odd number of pixels was scored
C8_Witness ==
    /\ DetectedCheckerboard
    /\ Len(call.args.px) % 2 = 1
    /\ Lt(call.out.value.blurScore, Q(1, 4))

\* the population variance of the intensities divided by 255*255, computed as
\* (n * sum of squares - square of the sum) / (n * n * 255 * 255)
NormalizedVariance(px) ==
    LET n == Len(px)
        sum == Sum(Numbers(px))
        squares == Sum([i \in 1..n |-> Num(px[i] * px[i])])
    IN  Div(Sub(Mul(Num(n), squares), Mul(sum, sum)), Num(n * n * 255 * 255))

\* C16: for every image detectBlur accepts, blurScore is the normalized global
\* variance, isBlurry is true exactly when blurScore is strictly below the reported
\* threshold, and the recommendation is the 'too blurry' message exactly when
\* isBlurry is true and the 'acceptable' message otherwise.
C16_BlurryIffBelowThreshold ==
    (call.fn = "detectBlur" /\ call.done /\ call.out.ok) =>
        LET results == call.out.value
        IN  /\ results.blurScore = NormalizedVariance(call.args.px)
            /\ results.threshold = call.self.blurThreshold
            /\ results.isBlurry \in BOOLEAN
            /\ results.isBlurry <=> Lt(results.blurScore, results.threshold)
            /\ results.recommendation
                  = IF results.isBlurry
                    THEN "Image is too blurry, please provide a clearer image"
                    ELSE "Image quality is acceptable"

\* an accepted image whose blurScore equals the threshold: it is not blurry
C16_Witness ==
    /\ call.fn = "detectBlur" /\ call.done /\ call.out.ok
    /\ call.out.value.blurScore = call.out.value.threshold
    /\ ~call.out.value.isBlurry
    /\ call.out.value.recommendation = "Image quality is acceptable"

(***************************************************************************)
(* Two applications of detectBlur by one detector (specification SpecPair).*)
(***************************************************************************)
PairImages == {f \in Images : Len(f.px) <= MaxPairPixels}

PairInit ==
    /\ Idle
    /\ \E self \in Detectors, f \in PairImages :
          call = [fn |-> "detectBlurTwice", self |-> self, args |-> f, stage |-> 0,
                  first |-> Thrown(<<>>), second |-> Thrown(<<>>)]

PairFirst ==
    /\ call.fn = "detectBlurTwice" /\ call.stage = 0
    /\ call' = [call EXCEPT !.stage = 1, !.first = detectBlur(call.self, call.args),
                            !.args = NoFile]
    /\ UNCHANGED <<pc, path, file, scorer, quality, resp, cause, reqs, ui, ocr>>

PairSecond ==
    /\ call.fn = "detectBlurTwice" /\ call.stage = 1
    /\ \E f \in PairImages :
          call' = [call EXCEPT !.stage = 2, !.second = detectBlur(call.self, f)]
    /\ UNCHANGED <<pc, path, file, scorer, quality, resp, cause, reqs, ui, ocr>>

PairNext == PairFirst \/ PairSecond

SpecPair == PairInit /\ [][PairNext]_vars

\* C10: the blur score is oriented 0 = sharp, 1 = blurry: in the blur-check path, for
\* two images analysed with the same threshold, if the first is flagged isBlurry and
\* the second has a blurScore at least the first's, the second is flagged isBlurry.
C10_HigherScoreStaysBlurry ==
    (call.fn = "detectBlurTwice" /\ call.stage = 2 /\ call.first.ok /\ call.second.ok) =>
        ( ( /\ call.first.value.isBlurry
            /\ call.first.value.threshold = call.second.value.threshold
            /\ Ge(call.second.value.blurScore, call.first.value.blurScore) )
          => call.second.value.isBlurry )

(***************************************************************************)
(* Construction of a scorer from an options object, followed by the        *)
(* comparisons the scorer makes with its configured values (specification  *)
(* SpecConstruct).                                                         *)
(***************************************************************************)
ThresholdOptions == {Absent, Given(Num(0)), Given(DefaultBlurThreshold), Given(Q(1, 2)), Given(Num(1))}
SizeOptions == {Absent, Given(Size(0, 0)), Given(Size(2, 2)), Given(Size(400, 400))}
ConfidenceOptions == {Absent, Given(Num(0)), Given(DefaultMinConfidence), Given(Num(80))}
TextLengthOptions == {Absent, Given(Num(0)), Given(Num(1)), Given(DefaultMinTextLength)}

\* the values the constructed scorer is compared against
Probes ==
    [ score : {Num(0), Q(1, 10), Q(3, 4)},
      size : {Size(1, 1), Size(500, 500)},
      confidence : {Num(30), Num(70)} ]

ConstructInit ==
    /\ Idle
    /\ \/ \E t \in ThresholdOptions, m \in SizeOptions :
             call = [ fn |-> "constructor", class |-> "DocumentBlurDetector",
                      options |-> [blurThreshold |-> t, minDocumentSize |-> m],
                      stage |-> "new" ]
       \/ \E t \in ThresholdOptions, c \in ConfidenceOptions, l \in TextLengthOptions :
             call = [ fn |-> "constructor", class |-> "DocumentReadabilityChecker",
                      options |-> [blurThreshold |-> t, minConfidence |-> c,
                                   minTextLength |-> l],
                      stage |-> "new" ]

\* new DocumentBlurDetector(options) / new DocumentReadabilityChecker(options)
Construct ==
    /\ call.fn = "constructor" /\ call.stage = "new"
    /\ call' = [ fn |-> "constructor", class |-> call.class, options |-> call.options,
                 stage |-> "constructed",
                 self |-> IF call.class = "DocumentBlurDetector"
                          THEN DocumentBlurDetector(call.options)
                          ELSE DocumentReadabilityChecker(call.options) ]
    /\ UNCHANGED <<pc, path, file, scorer, quality, resp, cause, reqs, ui, ocr>>

\* the comparisons of detectBlur (dimension test, isBlurry), and those of
\* generateSuggestions (blurScore > blurThreshold, confidenceScore < minConfidence)
Compare ==
    /\ call.fn = "constructor" /\ call.stage = "constructed"
    /\ \E probe \in Probes :
          call' = [ fn |-> "constructor", class |-> call.class, options |-> call.options,
                    stage |-> "compared", self |-> call.self, probe |-> probe,
                    tooLow |-> /\ call.class = "DocumentBlurDetector"
                               /\ ResolutionTooLow(call.self, probe.size),
                    isBlurry |-> /\ call.class = "DocumentBlurDetector"
                                 /\ Lt(probe.score, call.self.blurThreshold),
                    suggestions |->
                        IF call.class = "DocumentBlurDetector" THEN <<>>
                        ELSE generateSuggestions(call.self,
                                 [ readabilityScore |-> Num(100),
                                   qualityMetrics |-> [ blurScore |-> probe.score,
                                                        contrast |-> Num(1),
                                                        brightness |-> Q(1, 2) ],
                                   confidenceScore |-> probe.confidence ]) ]
    /\ UNCHANGED <<pc, path, file, scorer, quality, resp, cause, reqs, ui, ocr>>

ConstructNext == Construct \/ Compare

SpecConstruct == ConstructInit /\ [][ConstructNext]_vars

\* the value a caller supplied for an option, the default when the field is absent
Supplied(o, dflt) == IF o = Absent THEN dflt ELSE ValueOf(o)

\* C12: a scorer constructed with an explicit blurThreshold, minDocumentSize,
\* minConfidence or minTextLength (0 included) holds and compares with exactly that
\* value; the defaults 0.15, 800x500, 60 and 10 are used only for an absent field.
C12_SuppliedValuesAreUsed ==
    (call.fn = "constructor" /\ call.stage = "compared") =>
        LET o == call.options
            threshold == Supplied(o.blurThreshold, DefaultBlurThreshold)
        IN  IF call.class = "DocumentBlurDetector"
            THEN LET min == Supplied(o.minDocumentSize, BlurDetectorDefaultSize)
                 IN  /\ call.isBlurry = Lt(call.probe.score, threshold)
                     /\ call.tooLow = ResolutionTooLow([minDocumentSize |-> min],
                                                       call.probe.size)
            ELSE /\ Has(call.suggestions, MsgBlur) = Gt(call.probe.score, threshold)
                 /\ Has(call.suggestions, MsgConfidence)
                       = Lt(call.probe.confidence,
                            Supplied(o.minConfidence, DefaultMinConfidence))
                 /\ call.self.minTextLength
                       = Supplied(o.minTextLength, DefaultMinTextLength)

\* the part of C12 that holds: supplied values other than 0 are the ones compared
C12_NonZeroSuppliedValuesAreUsed ==
    ( /\ call.fn = "constructor" /\ call.stage = "compared"
      /\ \A f \in DOMAIN call.options : call.options[f] # Given(Num(0)) )
    => C12_SuppliedValuesAreUsed

(***************************************************************************)
(* Concurrent requests (specification SpecConcurrent).  Each invocation of *)
(* a POST handler has its own locals (file, detector, metrics, response),  *)
(* kept in reqs[r]; the steps of different invocations interleave at the   *)
(* awaits.  reqs[r].in records what the invocation received: the upload,   *)
(* the options, and the answers of sharp and tesseract to its own calls.   *)
(***************************************************************************)
Requests == {1, 2}

ConcurrentUploads ==
    { NoFile, Undecodable,
      Image(2, 2, <<0, 255, 255, 0>>),
      Image(3, 3, <<0, 0, 0, 0, 255, 0, 0, 0, 0>>),
      Image(3, 3, [i \in 1..9 |-> 128]) }

ConcurrentTexts == { <<Word, Space, Word>>, <<Label, Space, Numeral(<<8, 5>>, <<>>)>> }

NoAnswer == [ok |-> TRUE, value |-> <<>>]
NoInput == [path |-> "none", file |-> NoFile, options |-> <<>>,
            thrown |-> NoCause, answer |-> NoAnswer]
IdleRequest == [pc |-> "idle", in |-> NoInput, scorer |-> NoScorer,
                quality |-> NoQuality, resp |-> NoResp, overlapped |-> FALSE]

\* a detector shared by the invocations of a route: the one its first invocation built
DetectorOf_Module(rs, r) ==
    IF rs[1].in.path = rs[r].in.path /\ rs[1].in.file.present
    THEN rs[1].scorer ELSE rs[r].scorer

\* the detector / checker an invocation uses: the const local to its POST call
DetectorOf(rs, r) == rs[r].scorer

ConcurrentInit ==
    /\ RouteIdle
    /\ call = NoCall
    /\ reqs = [r \in Requests |-> IdleRequest]
    /\ ui = NoUi
    /\ ocr = NoOcr

\* another invocation is between its first and its last step
OtherInFlight(r) == \E q \in Requests \ {r} : reqs[q].pc \notin {"idle", "done"}

\* a step of invocation r: only its own locals change; overlapped records
\* that the step was taken while another invocation was in flight
Step(r, locals) ==
    /\ reqs' = [reqs EXCEPT ![r] =
                   [locals EXCEPT !.overlapped = reqs[r].overlapped \/ OtherInFlight(r)]]
    /\ UNCHANGED <<pc, path, file, scorer, quality, resp, cause, call, ui, ocr>>

\* invocation r returns the response
Answer(r, response) == [reqs[r] EXCEPT !.pc = "done", !.resp = response]

\* POST of either route, up to the call of detectBlur / checkReadability
Post_Receive(r) ==
    /\ reqs[r].pc = "idle"
    /\ \E p \in {"blur", "read"}, f \in ConcurrentUploads :
       \E options \in IF p = "blur" THEN BlurOptionSets ELSE ReadOptionSets :
          LET in == [NoInput EXCEPT !.path = p, !.file = f, !.options = options]
          IN  Step(r,
                  IF ~f.present
                  THEN [pc |-> "done", in |-> in, scorer |-> NoScorer,
                        quality |-> NoQuality,
                        resp |-> JsonError(400, <<"No file provided">>),
                        overlapped |-> FALSE]
                  ELSE [pc |-> IF p = "blur" THEN "detectBlur_metadata"
                                             ELSE "checkReadability_quality",
                        in |-> in,
                        scorer |-> IF p = "blur" THEN DocumentBlurDetector(options)
                                                 ELSE DocumentReadabilityChecker(options),
                        quality |-> NoQuality, resp |-> NoResp,
                        overlapped |-> FALSE])

\* detectBlur of invocation r: metadata() and the dimension test
Post_DetectBlur_Metadata(r) ==
    /\ reqs[r].pc = "detectBlur_metadata"
    /\ \E thrown \in SharpThrows :
          LET f == reqs[r].in.file
              guard == IF f.decodable THEN DetectBlurGuard(DetectorOf(reqs, r), f) ELSE thrown
          IN  Step(r,
                  IF guard.ok
                  THEN [reqs[r] EXCEPT !.pc = "detectBlur_pixels"]
                  ELSE [Answer(r, PostCatch(DetectBlurCatch(guard), "Failed to analyze image"))
                           EXCEPT !.in.thrown = guard])

\* detectBlur of invocation r: the pixel statistics, and the response
Post_DetectBlur_Pixels(r) ==
    /\ reqs[r].pc = "detectBlur_pixels"
    /\ LET results == DetectBlurPixels(DetectorOf(reqs, r), reqs[r].in.file)
       IN  Step(r,
               [Answer(r, Json(results)) EXCEPT
                   !.quality = [computed |-> TRUE, blurScore |-> results.blurScore,
                                brightness |-> results.quality.brightness,
                                contrast |-> results.quality.contrast]])

\* checkReadability of invocation r: preprocessImage, metadata(), analyzeImageQuality
Post_CheckReadability_Quality(r) ==
    /\ reqs[r].pc = "checkReadability_quality"
    /\ LET f == reqs[r].in.file
       IN  IF ~f.decodable
           THEN \E thrown \in SharpThrows :
                   Step(r,
                       [Answer(r, PostCatch(CheckReadabilityCatch(thrown),
                                            "Failed to analyze document readability"))
                           EXCEPT !.in.thrown = thrown])
           ELSE Step(r,
                    [reqs[r] EXCEPT !.pc = "checkReadability_ocr",
                                    !.quality = analyzeImageQuality(f)])

\* checkReadability of invocation r: tesseract answers both recognize calls, or throws
Post_CheckReadability_OCR(r) ==
    /\ reqs[r].pc = "checkReadability_ocr"
    /\ \/ \E ocrResult \in ConcurrentTexts, confText \in ConcurrentTexts :
             Step(r,
                 [Answer(r, Json(ReadabilityResult(DetectorOf(reqs, r), reqs[r].in.file,
                                                   reqs[r].quality, ocrResult, confText)))
                     EXCEPT !.in.answer = Returned(<<ocrResult, confText>>)])
       \/ \E thrown \in TesseractThrows :
             Step(r,
                 [Answer(r, PostCatch(CheckReadabilityCatch(thrown),
                                      "Failed to analyze document readability"))
                     EXCEPT !.in.answer = thrown])

ConcurrentNext ==
    \E r \in Requests :
        \/ Post_Receive(r)
        \/ Post_DetectBlur_Metadata(r)
        \/ Post_DetectBlur_Pixels(r)
        \/ Post_CheckReadability_Quality(r)
        \/ Post_CheckReadability_OCR(r)

SpecConcurrent == ConcurrentInit /\ [][ConcurrentNext]_vars

\* the response of a POST handler that runs alone, as a function of what it
\* receives: file and options, and the answers of sharp and tesseract
AloneResponse(in) ==
    IF ~in.file.present THEN JsonError(400, <<"No file provided">>)
    ELSE IF in.path = "blur"
    THEN LET detector == DocumentBlurDetector(in.options)
             results == IF in.file.decodable THEN detectBlur(detector, in.file)
                        ELSE DetectBlurCatch(in.thrown)
         IN  IF results.ok THEN Json(results.value)
             ELSE PostCatch(results, "Failed to analyze image")
    ELSE LET checker == DocumentReadabilityChecker(in.options)
             result ==
                 IF ~in.file.decodable THEN CheckReadabilityCatch(in.thrown)
                 ELSE IF ~in.answer.ok THEN CheckReadabilityCatch(in.answer)
                 ELSE Returned(ReadabilityResult(checker, in.file,
                                                 analyzeImageQuality(in.file),
                                                 in.answer.value[1], in.answer.value[2]))
         IN  IF result.ok THEN Json(result.value)
             ELSE PostCatch(result, "Failed to analyze document readability")

\* C13: under every interleaving of the steps of two scoring requests, the response
\* of each request is the one its own file, options and collaborator answers give
\* when the request runs alone, and two requests with the same input get the same
\* response.
C13_ConcurrentEqualsAlone ==
    \A r \in Requests :
        reqs[r].pc = "done" =>
            /\ reqs[r].resp = AloneResponse(reqs[r].in)
            /\ \A q \in Requests :
                  (reqs[q].pc = "done" /\ reqs[q].in = reqs[r].in)
                      => reqs[q].resp = reqs[r].resp

\* two requests of the same route for the same image, with different options,
\* overlapped and both succeeded
C13_Witness ==
    /\ \A r \in Requests : /\ reqs[r].pc = "done"
                            /\ reqs[r].overlapped
                            /\ reqs[r].resp.status = 200
    /\ reqs[1].in.path = reqs[2].in.path
    /\ reqs[1].in.file = reqs[2].in.file
    /\ reqs[1].in.options # reqs[2].in.options
    /\ reqs[1].resp # reqs[2].resp

(***************************************************************************)
(* The OCRUploader component (specification SpecUploader).  ui holds the    *)
(* React state of the component, the clock that performance.now() reads,   *)
(* and the fetch a handler is awaiting.  The buttons are rendered once a   *)
(* file is selected and are disabled while isLoading; the file input is    *)
(* always enabled.  A response is modelled by the file it was computed     *)
(* for.  before and last record the log ahead of the last action and the   *)
(* name of that action.                                                    *)
(***************************************************************************)
MaxTime == 5        \* performance.now() runs from 0 to MaxTime

Files == {1, 2}     \* the files the user can choose
NoSelection == 0    \* selectedFile === null

\* handler |-> the method name it logs, what its response carries, its error message
Handlers ==
    [ handleOCR |-> [method |-> "Local OCR", text |-> FALSE, blur |-> FALSE,
                     error |-> "Error processing the file. Please try again."],
      handleBlurCheck |-> [method |-> "Blur Detection", text |-> FALSE, blur |-> TRUE,
                           error |-> "Error analyzing the file. Please try again."],
      handleExternalOCR |-> [method |-> "External OCR", text |-> TRUE, blur |-> FALSE,
                             error |-> "Error processing the file with external OCR. Please try again."],
      handleOpenAIOCR |-> [method |-> "OpenAI OCR", text |-> TRUE, blur |-> FALSE,
                           error |-> "Error processing the file with OpenAI. Please try again."],
      handleTextractOCR |-> [method |-> "AWS Textract", text |-> TRUE, blur |-> FALSE,
                             error |-> "Error processing the file with Textract. Please try again."],
      handleLocalReadability |-> [method |-> "Local Readability", text |-> TRUE, blur |-> TRUE,
                                  error |-> "Error analyzing the document. Please try again."] ]

EmptyText == [kind |-> "empty", of |-> NoSelection]          \* ''
UndefinedText == [kind |-> "undefined", of |-> NoSelection]  \* data.text of a body without text
TextOf(f) == [kind |-> "text", of |-> f]                     \* the text extracted from file f
NoBlurResults == [kind |-> "null", of |-> NoSelection]
BlurResultsOf(f) == [kind |-> "results", of |-> f]
NoFetch == [handler |-> "none"]
NoError == "null"

\* setProcessingTimes(prev => [record, ...prev])
addProcessingTime_Prepend(prev, method, startTime, now) ==
    <<[method |-> method, duration |-> now - startTime, timestamp |-> now]>> \o prev

\* addProcessingTime(method, startTime), applied to the previous log
addProcessingTime(prev, method, startTime, now) ==
    Append(prev, [method |-> method, duration |-> now - startTime, timestamp |-> now])

UploaderInit ==
    /\ RouteIdle
    /\ call = NoCall
    /\ reqs = NoReqs
    /\ ocr = NoOcr
    /\ ui = [ mounted |-> TRUE, selectedFile |-> NoSelection, extractedText |-> EmptyText,
              isLoading |-> FALSE, error |-> NoError, blurResults |-> NoBlurResults,
              processingTimes |-> <<>>, now |-> 0, fetch |-> NoFetch,
              before |-> <<>>, last |-> "mount" ]

\* the state after an action named name: u with its history fields set
After(name, u) == [u EXCEPT !.before = ui.processingTimes, !.last = name]

\* the component touches nothing but its own state
OnlyUi == UNCHANGED <<pc, path, file, scorer, quality, resp, cause, call, reqs, ocr>>

\* handleFileSelect, for an event that carries a file
handleFileSelect ==
    /\ ui.mounted
    /\ \E chosen \in Files :
          ui' = After("handleFileSelect",
                      [ui EXCEPT !.selectedFile = chosen, !.error = NoError,
                                 !.extractedText = EmptyText,
                                 !.blurResults = NoBlurResults])
    /\ OnlyUi

\* a click on the button of handler h: the handler up to its await fetch(...)
Click(h) ==
    /\ ui.mounted
    /\ ui.selectedFile # NoSelection
    /\ ~ui.isLoading
    /\ ui.now < MaxTime
    /\ ui' = After(h,
                   IF ui.selectedFile = NoSelection
                   THEN [ui EXCEPT !.error = "Please select a file first"]
                   ELSE [ui EXCEPT !.isLoading = TRUE, !.error = NoError,
                                   !.now = ui.now + 1,
                                   !.fetch = [ handler |-> h, file |-> ui.selectedFile,
                                               startTime |-> ui.now ]])
    /\ OnlyUi

handleOCR == Click("handleOCR")
handleBlurCheck == Click("handleBlurCheck")
handleExternalOCR == Click("handleExternalOCR")
handleOpenAIOCR == Click("handleOpenAIOCR")
handleTextractOCR == Click("handleTextractOCR")
handleLocalReadability == Click("handleLocalReadability")

\* the awaited fetch answers with response.ok: the rest of the try block, and finally
FetchSucceeds ==
    /\ ui.mounted
    /\ ui.fetch # NoFetch
    /\ ui.now < MaxTime
    /\ LET h == Handlers[ui.fetch.handler]
           f == ui.fetch.file
       IN  ui' = After("succeeds",
                 [ui EXCEPT
                     !.extractedText = IF h.text THEN TextOf(f)
                                       ELSE IF h.blur THEN @ ELSE UndefinedText,
                     !.blurResults = IF h.blur THEN BlurResultsOf(f) ELSE @,
                     !.processingTimes =
                         addProcessingTime(@, h.method, ui.fetch.startTime, ui.now),
                     !.now = ui.now + 1,
                     !.isLoading = FALSE,
                     !.fetch = NoFetch])
    /\ OnlyUi

\* the awaited fetch rejects, or answers with !response.ok: catch, and finally
FetchFails ==
    /\ ui.mounted
    /\ ui.fetch # NoFetch
    /\ ui.now < MaxTime
    /\ ui' = After("fails",
                   [ui EXCEPT !.error = Handlers[ui.fetch.handler].error,
                              !.now = ui.now + 1,
                              !.isLoading = FALSE,
                              !.fetch = NoFetch])
    /\ OnlyUi

UploaderNext ==
    \/ handleFileSelect
    \/ handleOCR
    \/ handleBlurCheck
    \/ handleExternalOCR
    \/ handleOpenAIOCR
    \/ handleTextractOCR
    \/ handleLocalReadability
    \/ FetchSucceeds
    \/ FetchFails

SpecUploader == UploaderInit /\ [][UploaderNext]_vars

IsPrefix(a, b) == Len(a) <= Len(b) /\ \A i \in 1..Len(a) : a[i] = b[i]

\* C14: the processing-time log is append-only and insertion-ordered: after every
\* action of the component the log before the action is a prefix of the log after
\* it, and the log grows, by one record at its end, only when a request succeeded.
C14_LogAppendOnly ==
    ui.mounted =>
        /\ IsPrefix(ui.before, ui.processingTimes)
        /\ ui.processingTimes # ui.before =>
              /\ ui.last = "succeeds"
              /\ Len(ui.processingTimes) = Len(ui.before) + 1

\* a log of two records, in insertion order, that a file selection left as it was
C14_Witness ==
    /\ ui.mounted
    /\ Len(ui.processingTimes) = 2
    /\ ui.last = "handleFileSelect"
    /\ ui.before = ui.processingTimes
    /\ ui.processingTimes[1].timestamp < ui.processingTimes[2].timestamp

\* C17: the displayed extracted text and quality results are those of the selected
\* file: a response for a file selected earlier never becomes the displayed
\* extractedText or blurResults.
C17_DisplayedBelongsToSelected ==
    ui.mounted =>
        /\ ui.extractedText.kind = "text" => ui.extractedText.of = ui.selectedFile
        /\ ui.blurResults.kind = "results" => ui.blurResults.of = ui.selectedFile

(***************************************************************************)
(* The POST handler of /api/ocr (specification SpecOcr).  ocr holds the     *)
(* position of the handler, the clock performance.now() reads, the promise *)
(* scribe.extractText returned and the response.  The handler ignores the  *)
(* uploaded file: the extraction is given a fixed URL.                     *)
(***************************************************************************)
NoPromise == [state |-> "none", settledAt |-> 0]

OcrInit ==
    /\ RouteIdle
    /\ call = NoCall
    /\ reqs = NoReqs
    /\ ui = NoUi
    /\ ocr = [ pc |-> "idle", now |-> 0, startTime2 |-> 0, processingTime2 |-> 0,
               extraction |-> NoPromise, logged |-> FALSE, resp |-> NoResp ]

\* the route touches nothing but its own state
OnlyOcr == UNCHANGED <<pc, path, file, scorer, quality, resp, cause, call, reqs, ui>>

\* time passes
OcrTick ==
    /\ ocr.pc # "none"
    /\ ocr.now < MaxTime
    /\ ocr' = [ocr EXCEPT !.now = @ + 1]
    /\ OnlyOcr

\* POST is called: await request.formData()
OcrPost_Call ==
    /\ ocr.pc = "idle"
    /\ ocr' = [ocr EXCEPT !.pc = "formData"]
    /\ OnlyOcr

\* request.formData() rejects: the catch block answers
OcrPost_FormDataFails ==
    /\ ocr.pc = "formData"
    /\ ocr' = [ocr EXCEPT !.pc = "done",
                          !.resp = JsonError(500, <<"Failed to process image">>)]
    /\ OnlyOcr

\* the rest of the try block, which has no await: startTime2, the call of
\* scribe.extractText(...).then(...), processingTime2 and the response; the call
\* takes spent units of time to return its promise
OcrPost_Extract ==
    /\ ocr.pc = "formData"
    /\ \E spent \in {0, 1} :
          /\ ocr.now + spent <= MaxTime
          /\ ocr' = [ocr EXCEPT !.pc = "done",
                                !.startTime2 = ocr.now,
                                !.extraction = [state |-> "pending", settledAt |-> 0],
                                !.now = ocr.now + spent,
                                !.processingTime2 = (ocr.now + spent) - ocr.now,
                                !.resp = Json([processingTime2 |-> (ocr.now + spent) - ocr.now])]
    /\ OnlyOcr

\* scribe.extractText throws before it returns a promise: the catch block answers
OcrPost_ExtractThrows ==
    /\ ocr.pc = "formData"
    /\ ocr' = [ocr EXCEPT !.pc = "done", !.startTime2 = ocr.now,
                          !.resp = JsonError(500, <<"Failed to process image">>)]
    /\ OnlyOcr

\* the extraction completes: .then((res) => console.log(res)) runs
Extraction_Resolves ==
    /\ ocr.pc # "none"
    /\ ocr.extraction.state = "pending"
    /\ ocr' = [ocr EXCEPT !.extraction = [state |-> "resolved", settledAt |-> ocr.now],
                          !.logged = TRUE]
    /\ OnlyOcr

\* the extraction fails: the promise has no rejection handler
Extraction_Rejects ==
    /\ ocr.pc # "none"
    /\ ocr.extraction.state = "pending"
    /\ ocr' = [ocr EXCEPT !.extraction = [state |-> "rejected", settledAt |-> ocr.now]]
    /\ OnlyOcr

\* the next request is served
OcrPost_Next ==
    /\ ocr.pc = "done"
    /\ ocr.extraction.state # "pending"
    /\ ocr' = [ocr EXCEPT !.pc = "idle", !.startTime2 = 0, !.processingTime2 = 0,
                          !.extraction = NoPromise, !.logged = FALSE, !.resp = NoResp]
    /\ OnlyOcr

OcrNext ==
    \/ OcrTick
    \/ OcrPost_Call
    \/ OcrPost_FormDataFails
    \/ OcrPost_Extract
    \/ OcrPost_ExtractThrows
    \/ Extraction_Resolves
    \/ Extraction_Rejects
    \/ OcrPost_Next

SpecOcr == OcrInit /\ [][OcrNext]_vars

\* C18: the /api/ocr handler sends its response only after the extraction it started
\* has completed, the reported processing time covers the extraction, and a failed
\* extraction is answered with the 500 'Failed to process image' response, never
\* with a success response.
C18_RespondsAfterExtraction ==
    (ocr.pc = "done" /\ ocr.extraction.state # "none") =>
        /\ ocr.resp.status = 200 =>
              /\ ocr.extraction.state = "resolved"
              /\ ocr.resp.body.processingTime2
                    >= ocr.extraction.settledAt - ocr.startTime2
        /\ ocr.extraction.state = "rejected" =>
              ocr.resp = JsonError(500, <<"Failed to process image">>)

====
